---- MODULE Spec2Model ----
(***************************************************************************)
(* gdnotify: notification-channel store, incremental change pull with the  *)
(* page token, webhook / sync handlers and channel maintenance.            *)
(*                                                                         *)
(* Time is counted in whole days.  Page tokens are cursors into a drive's  *)
(* change log: token t means "t changes have been consumed"; change k is   *)
(* the k-th entry of the log.                                              *)
(***************************************************************************)
EXTENDS Integers, Sequences, FiniteSets, TLC

(***************************************************************************)
(* Bounds of the model                                                     *)
(***************************************************************************)
MaxChanges == 2        \* changes the upstream appends to one drive's log
MaxPageLen == 1        \* changes the upstream puts on one changes.list page
MaxTicks == 1          \* days the clock advances
MaxFaults == 1         \* calls that fail for a reason outside the program
MaxStored == 2         \* channel ids used when the storage is called on its own
MaxSent == 3           \* changes handed to one SendNotification call
MaxDetails == 21       \* details handed to one SendChanges call of the event bus
MaxRules == 2          \* rules of the S3 copy configuration
MaxRemaining == 6      \* largest threshold and distance IsAboutToExpired is tried with
MaxScanPage == 3       \* rows the table puts on one page of a Scan
MaxBatches == 4        \* batches followed on one stream of FindAllChannels
StartTime == 100       \* the clock's value in the initial state

(***************************************************************************)
(* Program constants                                                       *)
(***************************************************************************)
DefaultDriveID == "__default__"
expiration == 7                         \* AppOption.Expiration, 168h
rotateRemaining == (2 * expiration) \div 10
pageTokenRefreshIntervalDays == 90

NoToken == -1          \* the empty page token ""
NoChannel == 0         \* the empty channel id ""

Backends == {"dynamodb", "file"}
WebIDs == {"w1", "w2"}
SyncIDs == {"s1"}
Pullers == WebIDs \cup SyncIDs
RunIDs == {"m1", "m2"}
TaskKinds == {"create", "rotate", "delete"}

VARIABLES
    backend,         \* StorageOption.Type
    store,           \* the channel records: table rows / FileStorage.Items
    now,             \* flextime.Now(), in days
    webhookAddress,  \* App.webhookAddress
    changeLog,       \* upstream: number of changes in each drive's log
    subs,            \* upstream: channel ids with a live subscription
    nextID,          \* next UUID handed out by uuid.NewRandom
    emitted,         \* <<drive, change>> pairs the emitter has accepted
    web,             \* handleWebhook requests
    syn,             \* syncChannels runs
    pull,            \* changesList invocations, one per puller
    pc,              \* where each request or run stands
    driveList,       \* upstream: the shared drives drives.list returns
    run,             \* maintenanceChannels runs
    task,            \* the errgroup tasks of each run, by kind and drive
    faults,          \* calls that have failed for an outside reason
    call,            \* the last call made on the storage by its own
    initial,         \* the channel records of the initial state
    conv,            \* a change and the event entry fields made from it
    sending,         \* a SendNotification call
    notification,    \* a SendChanges call on one of the emitters
    copier,          \* an S3Copier.Copy call
    expiry,          \* an IsAboutToExpired call
    stream,          \* a FindAllChannels call and the stream it returned
    grants           \* upstream: expirations watch may answer with unasked

\* the handlers, the runs and what they work on
appVars == <<backend, store, now, webhookAddress, changeLog, subs, nextID,
             emitted, web, syn, pull, pc, driveList, run, task, faults, call,
             initial>>

\* the parts that are exercised on their own
unitVars == <<conv, sending, notification, copier, expiry, stream, grants>>

vars == <<backend, store, now, webhookAddress, changeLog, subs, nextID,
          emitted, web, syn, pull, pc, driveList, run, task, faults, call,
          initial, conv, sending, notification, copier, expiry, stream, grants>>

Drives == {DefaultDriveID, "d1"}

(***************************************************************************)
(* ChannelItem                                                             *)
(***************************************************************************)
ChannelItem(id, drive, token, exp, fetched, created, updated) ==
    [ChannelID |-> id, Expiration |-> exp, PageToken |-> token,
     ResourceID |-> id, DriveID |-> drive, PageTokenFetchedAt |-> fetched,
     CreatedAt |-> created, UpdatedAt |-> updated]

NoItem == ChannelItem(NoChannel, "", NoToken, 0, 0, 0, 0)

\* a channel that has just reached the threshold is not yet about to expire
IsAboutToExpired_Strict(item, remaining) == item.Expiration - now < remaining

IsAboutToExpired(item, remaining) == item.Expiration - now <= remaining

IndexOf(items, id) ==
    IF \E i \in 1..Len(items) : items[i].ChannelID = id
    THEN CHOOSE i \in 1..Len(items) :
            /\ items[i].ChannelID = id
            /\ \A j \in 1..(i - 1) : items[j].ChannelID # id
    ELSE 0

RemoveAt(items, i) ==
    [j \in 1..(Len(items) - 1) |-> IF j < i THEN items[j] ELSE items[j + 1]]

(***************************************************************************)
(* Storage: every operation yields [err, items]                            *)
(***************************************************************************)
Result(err, items) == [err |-> err, items |-> items]

\* the first record is returned whatever its ChannelID
FindOneByChannelID_First(items, id) ==
    IF items = <<>>
    THEN [err |-> "ChannelNotFound", item |-> NoItem]
    ELSE [err |-> "", item |-> items[1]]

FindOneByChannelID(items, id) ==
    IF IndexOf(items, id) = 0
    THEN [err |-> "ChannelNotFound", item |-> NoItem]
    ELSE [err |-> "", item |-> items[IndexOf(items, id)]]

\* attribute_exists(ChannelID) AND UpdatedAt < :UpdatedAt; SET PageToken, UpdatedAt
DynamoDBStorage_UpdatePageToken(items, target) ==
    LET i == IndexOf(items, target.ChannelID) IN
    IF i # 0 /\ items[i].UpdatedAt < target.UpdatedAt
    THEN Result("", [items EXCEPT ![i].PageToken = target.PageToken,
                                  ![i].UpdatedAt = target.UpdatedAt])
    ELSE Result("ConditionalCheckFailed", items)

\* the first record with the ChannelID gets the PageToken, whatever its UpdatedAt
FileStorage_UpdatePageToken(items, target) ==
    LET i == IndexOf(items, target.ChannelID) IN
    IF i # 0
    THEN Result("", [items EXCEPT ![i].PageToken = target.PageToken])
    ELSE Result("ChannelNotFound", items)

UpdatePageToken(items, target) ==
    IF backend = "dynamodb"
    THEN DynamoDBStorage_UpdatePageToken(items, target)
    ELSE FileStorage_UpdatePageToken(items, target)

\* attribute_exists(ChannelID)
DynamoDBStorage_DeleteChannel(items, target) ==
    LET i == IndexOf(items, target.ChannelID) IN
    IF i # 0 THEN Result("", RemoveAt(items, i))
    ELSE Result("ConditionalCheckFailed", items)

FileStorage_DeleteChannel(items, target) ==
    LET i == IndexOf(items, target.ChannelID) IN
    IF i # 0 THEN Result("", RemoveAt(items, i)) ELSE Result("", items)

DeleteChannelRecord(items, target) ==
    IF backend = "dynamodb"
    THEN DynamoDBStorage_DeleteChannel(items, target)
    ELSE FileStorage_DeleteChannel(items, target)

\* attribute_not_exists(ChannelID)
DynamoDBStorage_SaveChannel(items, item) ==
    IF IndexOf(items, item.ChannelID) # 0
    THEN Result("ChannelAlreadyExists", items)
    ELSE Result("", Append(items, item))

\* the item is appended whatever the records are
FileStorage_SaveChannel_Append(items, item) == Result("", Append(items, item))

\* a record with the ChannelID is replaced, otherwise the item is appended
FileStorage_SaveChannel(items, item) ==
    LET i == IndexOf(items, item.ChannelID) IN
    IF i # 0 THEN Result("", [items EXCEPT ![i] = item])
    ELSE Result("", Append(items, item))

SaveChannel(items, item) ==
    IF backend = "dynamodb"
    THEN DynamoDBStorage_SaveChannel(items, item)
    ELSE FileStorage_SaveChannel(items, item)

\* Calls to the store, the upstream service and the event bus can fail for a
\* reason outside the program; faults counts the calls that did.
CanFail == faults < MaxFaults

Injected == {"Fault", "Upstream", "Emit"}

Charge(failed) == faults' = IF failed THEN faults + 1 ELSE faults

\* A store call can also fail as a whole (transport error, lock not taken).
StoreOutcomes(result, items) ==
    {result} \cup (IF CanFail THEN {Result("Fault", items)} ELSE {})


(***************************************************************************)
(* Upstream document service                                               *)
(***************************************************************************)
Min(a, b) == IF a <= b THEN a ELSE b

\* changes.list: one page from the cursor tok.  newStartPageToken comes with
\* the last page only, nextPageToken with every other page.
ChangesPage(drive, tok) ==
    LET n == changeLog[drive]
        last == Min(tok + MaxPageLen, n)
    IN  [err |-> "", changes |-> (tok + 1)..last,
         nextPageToken |-> IF last < n THEN last ELSE NoToken,
         newStartPageToken |-> IF last < n THEN NoToken ELSE n]

ChangesListFailed ==
    [err |-> "Upstream", changes |-> {}, nextPageToken |-> NoToken,
     newStartPageToken |-> NoToken]

ChangesListResponses(drive, tok) ==
    {ChangesPage(drive, tok)} \cup (IF CanFail THEN {ChangesListFailed} ELSE {})

\* a new change is appended to a drive's log
UpstreamChange(d) ==
    /\ changeLog[d] < MaxChanges
    /\ \E i \in 1..Len(store) : store[i].DriveID = d
    /\ changeLog' = [changeLog EXCEPT ![d] = @ + 1]
    /\ UNCHANGED <<unitVars, initial, call, backend, store, now, webhookAddress, subs, nextID,
                   emitted, web, syn, pull, pc, driveList, run, task, faults>>

Tick ==
    /\ now < StartTime + MaxTicks
    /\ now' = now + 1
    /\ UNCHANGED <<unitVars, initial, call, backend, store, webhookAddress, changeLog, subs, nextID,
                   emitted, web, syn, pull, pc, driveList, run, task, faults>>

(***************************************************************************)
(* App.changesList: one invocation per puller                              *)
(***************************************************************************)
\* item, tok (nextPageToken), changes, newStartPageToken and err are the
\* variables of changesList.  The others are its history: found (the lookup
\* returned the channel), final (the newStartPageToken the upstream sent with
\* the last page), upd and sent (how UpdatePageToken ended, and the PageToken
\* it was called with).
IdlePull ==
    [item |-> NoItem, tok |-> NoToken, changes |-> {},
     newStartPageToken |-> NoToken, err |-> "", found |-> FALSE,
     final |-> NoToken, upd |-> "none", sent |-> NoToken]

StartPull(item) ==
    [IdlePull EXCEPT !.item = item, !.tok = item.PageToken, !.found = TRUE]

\* process(): the response of one page is folded into the invocation
ProcessPage(pl, resp) ==
    [pl EXCEPT !.changes = @ \cup resp.changes,
               !.tok = resp.nextPageToken,
               !.newStartPageToken = resp.newStartPageToken]

\* newItem keeps the PageToken the pull started from
BuildNewItem_StaleToken(pl) == [pl.item EXCEPT !.UpdatedAt = now]

\* after the last page: newItem := *item with the new token and UpdatedAt
BuildNewItem(pl) ==
    [pl.item EXCEPT !.PageToken = pl.newStartPageToken, !.UpdatedAt = now]

\* a failed page is taken for the last page
ListStep_IgnoreError(pl, resp) ==
    [st |-> "update",
     pl |-> [pl EXCEPT !.tok = NoToken, !.newStartPageToken = pl.tok]]

\* The statuses a pull goes through: "list" -> "update" -> "ok" | "failed"
ListStep(pl, resp) ==
    IF resp.err # ""
    THEN [st |-> "failed", pl |-> [pl EXCEPT !.changes = {}, !.err = resp.err]]
    ELSE LET q == [ProcessPage(pl, resp) EXCEPT !.final = resp.newStartPageToken]
         IN  [st |-> IF q.tok # NoToken THEN "list" ELSE "update", pl |-> q]

UpdateStep(pl, newItem, res) ==
    IF res.err # ""
    THEN [st |-> "failed",
          pl |-> [pl EXCEPT !.changes = {}, !.err = res.err, !.upd = "err",
                            !.sent = newItem.PageToken]]
    ELSE [st |-> "ok", pl |-> [pl EXCEPT !.upd = "ok", !.sent = newItem.PageToken]]

(***************************************************************************)
(* Emitter: Notification.SendChanges                                       *)
(***************************************************************************)
\* the event bus accepts any part of the entries; an entry it did not
\* accept makes the call return an error
SendChangesOutcomes(changes) ==
    {[accepted |-> a, err |-> IF a = changes THEN "" ELSE "Emit"] :
        a \in (IF CanFail THEN SUBSET changes ELSE {changes})}

Emit(drive, accepted) == emitted \cup {<<drive, c>> : c \in accepted}


(***************************************************************************)
(* handleWebhook: POST /                                                   *)
(***************************************************************************)
\* the word is looked for anywhere in the header value
HasPrefix_Contains(s, prefix) == \E i \in 1..Len(s) : s[i] = prefix

\* strings.HasPrefix over a header value given as its sequence of words
HasPrefix(s, prefix) == Len(s) >= 1 /\ s[1] = prefix

IdleRequest ==
    [channelID |-> NoChannel, state |-> "", userAgent |-> <<>>, status |-> 0]

\* every error of ChangesList is answered 500
ErrorStatus_Always500(err) == 500

\* the status the handler answers an error of ChangesList with
ErrorStatus(err) == IF err = "ChannelNotFound" THEN 200 ELSE 500

\* what is kept of a changesList invocation once its caller is done with it
Returned(pl) ==
    [pl EXCEPT !.item = NoItem, !.changes = {}, !.newStartPageToken = NoToken]

Reply(w, status, pl) ==
    /\ web' = [web EXCEPT ![w].status = status]
    /\ pull' = [pull EXCEPT ![w] = Returned(pl)]
    /\ pc' = [pc EXCEPT ![w] = "done"]

\* only the state "sync" is answered at once
Tolerated_SyncOnly(state) == state = "sync"

\* the resource states answered 200 at once: "sync", and whatever is not
\* "change"
Tolerated(state) == state = "sync" \/ state # "change"

\* checkWebhookAddress, then the header checks of handleWebhook
WebhookReceive(w, userAgent, state, channelID, detected) ==
    /\ pc[w] = "idle"
    /\ webhookAddress' = IF webhookAddress = "" THEN detected ELSE webhookAddress
    /\ LET req == [IdleRequest EXCEPT !.channelID = channelID, !.state = state,
                                      !.userAgent = userAgent]
       IN  IF ~HasPrefix(userAgent, "APIs-Google;")
           THEN /\ web' = [web EXCEPT ![w] = [req EXCEPT !.status = 404]]
                /\ pc' = [pc EXCEPT ![w] = "done"]
           ELSE IF Tolerated(state)
           THEN /\ web' = [web EXCEPT ![w] = [req EXCEPT !.status = 200]]
                /\ pc' = [pc EXCEPT ![w] = "done"]
           ELSE /\ web' = [web EXCEPT ![w] = req]
                /\ pc' = [pc EXCEPT ![w] = "find"]
    /\ UNCHANGED <<unitVars, initial, call, backend, store, now, changeLog, subs, nextID, emitted,
                   syn, pull, driveList, run, task, faults>>

\* App.ChangesList: the lookup of the channel
WebhookFind(w) ==
    /\ pc[w] = "find"
    /\ \E res \in {FindOneByChannelID(store, web[w].channelID)} \cup
                   (IF CanFail THEN {[err |-> "Fault", item |-> NoItem]} ELSE {}) :
          /\ Charge(res.err \in Injected)
          /\ IF res.err = ""
             THEN /\ pull' = [pull EXCEPT ![w] = StartPull(res.item)]
                  /\ pc' = [pc EXCEPT ![w] = "list"]
                  /\ UNCHANGED web
             ELSE Reply(w, ErrorStatus(res.err), [IdlePull EXCEPT !.err = res.err])
    /\ UNCHANGED <<unitVars, initial, call, backend, store, now, webhookAddress, changeLog, subs,
                   nextID, emitted, syn, driveList, run, task>>

\* changesList returned to handleWebhook
WebhookReturn(w, pl) ==
    /\ UNCHANGED syn
    /\ IF pl.err # "" THEN Reply(w, ErrorStatus(pl.err), pl)
       ELSE IF pl.changes # {}
       THEN /\ pull' = [pull EXCEPT ![w] = pl]
            /\ pc' = [pc EXCEPT ![w] = "emit"]
            /\ UNCHANGED web
       ELSE Reply(w, 200, pl)

(***************************************************************************)
(* syncChannels                                                            *)
(***************************************************************************)
\* FindAllChannels: what the consumer reads from the stream until it closes
\* The table scan delivers the rows in the table's own order, the file store
\* delivers Items as they are, or nothing when the lock is not taken.
DynamoDBStorage_FindAllChannels(items) ==
    {[err |-> "", items |-> [i \in 1..Len(items) |-> items[f[i]]], cut |-> FALSE] :
        f \in Permutations(1..Len(items))}
    \cup (IF CanFail THEN {[err |-> "Fault", items |-> <<>>, cut |-> FALSE]} ELSE {})

FileStorage_FindAllChannels(items) ==
    {[err |-> "", items |-> items, cut |-> FALSE]}
    \cup (IF CanFail THEN {[err |-> "", items |-> <<>>, cut |-> TRUE]} ELSE {})

FindAllChannels(items) ==
    IF backend = "dynamodb"
    THEN DynamoDBStorage_FindAllChannels(items)
    ELSE FileStorage_FindAllChannels(items)

\* last: what is kept of the changesList invocation that returned last;
\* failed: the pull or the emit of a channel has failed in this run;
\* status: what handleSync answered, 0 before it has
IdleSync ==
    [queue |-> <<>>, err |-> "", last |-> IdlePull, failed |-> FALSE,
     status |-> 0]

\* the loop over the items: take the next one or return
SyncTake(s, queue, pl) ==
    IF queue = <<>>
    THEN /\ syn' = [syn EXCEPT ![s].queue = <<>>, ![s].last = Returned(pl),
                               ![s].failed = @ \/ pl.err # ""]
         /\ pull' = [pull EXCEPT ![s] = IdlePull]
         /\ pc' = [pc EXCEPT ![s] = "done"]
    ELSE /\ syn' = [syn EXCEPT ![s].queue = Tail(queue), ![s].last = Returned(pl),
                               ![s].failed = @ \/ pl.err # ""]
         /\ pull' = [pull EXCEPT ![s] = StartPull(Head(queue))]
         /\ pc' = [pc EXCEPT ![s] = "list"]

SyncStart(s) ==
    /\ pc[s] = "idle"
    /\ \E res \in FindAllChannels(store) :
          /\ Charge(res.err \in Injected \/ res.cut)
          /\ IF res.err # ""
             THEN /\ syn' = [syn EXCEPT ![s].err = res.err]
                  /\ pc' = [pc EXCEPT ![s] = "done"]
                  /\ UNCHANGED pull
             ELSE SyncTake(s, res.items, IdlePull)
    /\ UNCHANGED <<unitVars, initial, call, backend, store, now, webhookAddress, changeLog, subs,
                   nextID, emitted, web, driveList, run, task>>

\* changesList returned to syncChannels
SyncReturn(s, pl) ==
    /\ UNCHANGED web
    /\ IF pl.err = "" /\ pl.changes # {}
       THEN /\ pull' = [pull EXCEPT ![s] = pl]
            /\ pc' = [pc EXCEPT ![s] = "emit"]
            /\ UNCHANGED syn
       ELSE SyncTake(s, syn[s].queue, pl)

(***************************************************************************)
(* The steps of changesList and SendNotification, for either caller        *)
(***************************************************************************)
Return(p, pl) == IF p \in WebIDs THEN WebhookReturn(p, pl) ELSE SyncReturn(p, pl)

\* one changes.list call
PullList(p) ==
    /\ pc[p] = "list"
    /\ \E resp \in ChangesListResponses(pull[p].item.DriveID, pull[p].tok) :
          LET r == ListStep(pull[p], resp) IN
          /\ Charge(resp.err \in Injected)
          /\ IF r.st = "failed" THEN Return(p, r.pl)
             ELSE /\ pull' = [pull EXCEPT ![p] = r.pl]
                  /\ pc' = [pc EXCEPT ![p] = r.st]
                  /\ UNCHANGED <<web, syn>>
    /\ UNCHANGED <<unitVars, initial, call, backend, store, now, webhookAddress, changeLog, subs,
                   nextID, emitted, driveList, run, task>>

\* newItem is built and handed to Storage.UpdatePageToken
PullUpdate(p) ==
    /\ pc[p] = "update"
    /\ LET newItem == BuildNewItem(pull[p]) IN
       \E res \in StoreOutcomes(UpdatePageToken(store, newItem), store) :
          /\ store' = res.items
          /\ Charge(res.err \in Injected)
          /\ Return(p, UpdateStep(pull[p], newItem, res).pl)
    /\ UNCHANGED <<unitVars, initial, call, backend, now, webhookAddress, changeLog, subs, nextID,
                   emitted, driveList, run, task>>

\* SendNotification(item, changes)
PullEmit(p) ==
    /\ pc[p] = "emit"
    /\ \E o \in SendChangesOutcomes(pull[p].changes) :
          /\ emitted' = Emit(pull[p].item.DriveID, o.accepted)
          /\ Charge(o.err \in Injected)
          /\ IF p \in WebIDs
             THEN /\ Reply(p, IF o.err # "" THEN 500 ELSE 200, pull[p])
                  /\ UNCHANGED syn
             ELSE /\ SyncTake(p, syn[p].queue, [pull[p] EXCEPT !.err = o.err])
                  /\ UNCHANGED web
    /\ UNCHANGED <<unitVars, initial, call, backend, store, now, webhookAddress, changeLog, subs,
                   nextID, driveList, run, task>>


(***************************************************************************)
(* The parts exercised on their own: IsAboutToExpired and the stream of    *)
(* FindAllChannels                                                         *)
(***************************************************************************)
\* result: what IsAboutToExpired(item, remaining) returned, once pc is "done"
IdleExpiry == [pc |-> "idle", item |-> NoItem, remaining |-> 0, result |-> FALSE]

CheckExpired ==
    /\ expiry.pc = "idle"
    /\ expiry' = [expiry EXCEPT
                    !.pc = "done",
                    !.result = IsAboutToExpired(expiry.item, expiry.remaining)]
    /\ UNCHANGED <<appVars, conv, sending, notification, copier, stream, grants>>

NoKey == 0             \* a nil LastEvaluatedKey or ExclusiveStartKey

\* dynamodb Scan: the rows after exclusiveStartKey, one page of them, and
\* the key of the last row evaluated unless the table's end was reached
Scan(items, limit, exclusiveStartKey) ==
    LET last == Min(exclusiveStartKey + limit, Len(items)) IN
    [Items |-> SubSeq(items, exclusiveStartKey + 1, last),
     LastEvaluatedKey |-> IF last < Len(items) THEN last ELSE NoKey]

\* pc: "idle", "background" while the goroutine runs, "closed" once the
\* stream is closed, "failed" when FindAllChannels returned no stream;
\* limit: rows on one page of the table; key: output.LastEvaluatedKey;
\* batches: what was sent on the stream so far
IdleStream ==
    [pc |-> "idle", limit |-> 1, key |-> NoKey, batches |-> <<>>, err |-> ""]

\* FindAllChannels up to its return
ScanStart ==
    /\ stream.pc = "idle"
    /\ IF backend = "dynamodb"
       THEN \/ stream' = [stream EXCEPT !.pc = "failed", !.err = "Fault"]
            \/ LET output == Scan(store, stream.limit, NoKey) IN
               stream' = [stream EXCEPT
                    !.batches = <<output.Items>>,
                    !.key = output.LastEvaluatedKey,
                    !.pc = IF output.LastEvaluatedKey = NoKey
                           THEN "closed" ELSE "background"]
       ELSE stream' = [stream EXCEPT !.pc = "background"]
    /\ UNCHANGED <<appVars, conv, sending, notification, copier, expiry, grants>>

\* the goroutine: one turn of the loop of the table scan, whose Scan input
\* carries no ExclusiveStartKey, or the locked read of the file store
ScanBackground ==
    /\ stream.pc = "background"
    /\ Len(stream.batches) < MaxBatches
    /\ IF backend = "dynamodb"
       THEN \/ stream' = [stream EXCEPT !.pc = "closed"]
            \/ LET output == Scan(store, stream.limit, NoKey) IN
               stream' = [stream EXCEPT
                    !.batches = Append(@, output.Items),
                    !.key = output.LastEvaluatedKey,
                    !.pc = IF output.LastEvaluatedKey = NoKey
                           THEN "closed" ELSE "background"]
       ELSE \/ stream' = [stream EXCEPT !.pc = "closed"]
            \/ stream' = [stream EXCEPT !.batches = Append(@, store),
                                        !.pc = "closed"]
    /\ UNCHANGED <<appVars, conv, sending, notification, copier, expiry, grants>>

(***************************************************************************)
(* gdnotifyevent.Change and the event entry made from it                   *)
(***************************************************************************)
NoChange == [nil |-> TRUE]            \* a nil *gdnotifyevent.Change
NoFile == [nil |-> TRUE]              \* a nil *gdnotifyevent.File

File(trashed, mimeType, modifiedTime) ==
    [Trashed |-> trashed, MimeType |-> mimeType, ModifiedTime |-> modifiedTime]

Change(changeType, removed, fileID, file, driveID) ==
    [ChangeType |-> changeType, Removed |-> removed, FileID |-> fileID,
     File |-> file, DriveID |-> driveID]

\* a trashed file is reported as any other changed file
DetailType_IgnoreTrashed(c) ==
    LET DetailTypeFileRemoved == "File Removed"
        DetailTypeFileChanged == "File Changed"
        DetailTypeDriveRemoved == "Shared Drive Removed"
        DetailTypeDriveChanged == "Drive Status Changed"
    IN  IF c = NoChange THEN "Unexpected Changed"
        ELSE IF c.ChangeType = "file"
        THEN IF c.Removed THEN DetailTypeFileRemoved ELSE DetailTypeFileChanged
        ELSE IF c.ChangeType = "drive"
        THEN IF c.Removed THEN DetailTypeDriveRemoved ELSE DetailTypeDriveChanged
        ELSE "Unexpected Changed"

DetailType(c) ==
    LET DetailTypeFileRemoved == "File Removed"
        DetailTypeFileTrashed == "File Move to trash"
        DetailTypeFileChanged == "File Changed"
        DetailTypeDriveRemoved == "Shared Drive Removed"
        DetailTypeDriveChanged == "Drive Status Changed"
    IN  IF c = NoChange THEN "Unexpected Changed"
        ELSE IF c.ChangeType = "file"
        THEN IF c.Removed THEN DetailTypeFileRemoved
             ELSE IF c.File # NoFile /\ c.File.Trashed THEN DetailTypeFileTrashed
             ELSE DetailTypeFileChanged
        ELSE IF c.ChangeType = "drive"
        THEN IF c.Removed THEN DetailTypeDriveRemoved ELSE DetailTypeDriveChanged
        ELSE "Unexpected Changed"

\* the source is a path, kept as the sequence of its parts
eventSource(sourcePrefix, c) ==
    IF c = NoChange THEN sourcePrefix
    ELSE IF c.ChangeType = "file" THEN sourcePrefix \o <<"file", c.FileID>>
    ELSE IF c.ChangeType = "drive" THEN sourcePrefix \o <<"drive", c.DriveID>>
    ELSE sourcePrefix \o <<c.ChangeType>>

\* done: the entry fields have been computed for the change
IdleConv == [change |-> NoChange, source |-> <<>>, detailType |-> "", done |-> FALSE]

\* the convertor of SendChanges, for a channel of drive d
Convert(d) ==
    /\ ~conv.done
    /\ conv' = [conv EXCEPT !.source = eventSource(<<"oss.gdnotify", d>>, conv.change),
                            !.detailType = DetailType(conv.change),
                            !.done = TRUE]
    /\ UNCHANGED <<appVars, expiry, stream, grants, sending, notification, copier>>

(***************************************************************************)
(* SendNotification: the withinModifiedTime filter                         *)
(***************************************************************************)
NoDuration == -1       \* a nil *time.Duration
NoTime == -1           \* a modifiedTime text that time.Parse refuses

\* time.Parse(time.RFC3339Nano, text): times are whole days
ParseTime(text) == [err |-> text = NoTime, t |-> text]

\* the age limit is taken to be met by every change that has a file
Filtered_DropAllFiles(changes, within) ==
    SelectSeq(changes, LAMBDA c : c.File = NoFile)

\* the loop over the changes, appending to filtered the ones it keeps
RECURSIVE Filtered(_, _)
Filtered(changes, within) ==
    IF changes = <<>> THEN <<>>
    ELSE LET change == Head(changes)
             parsed == ParseTime(change.File.ModifiedTime)
             rest == Filtered(Tail(changes), within)
         IN  IF change.File = NoFile THEN <<change>> \o rest
             ELSE IF parsed.err THEN <<change>> \o rest
             ELSE IF now - parsed.t > within THEN rest
             ELSE <<change>> \o rest

\* passed: what SendChanges was called with, once pc is "sent"
IdleSending == [pc |-> "idle", changes |-> <<>>, within |-> NoDuration, passed |-> <<>>]

SendNotification ==
    /\ sending.pc = "idle"
    /\ sending' = [sending EXCEPT
                     !.pc = "sent",
                     !.passed = IF sending.within = NoDuration THEN sending.changes
                                ELSE Filtered(sending.changes, sending.within)]
    /\ UNCHANGED <<appVars, expiry, stream, grants, conv, notification, copier>>

(***************************************************************************)
(* Notification.SendChanges: EventBridgeNotification and FileNotification  *)
(***************************************************************************)
\* an error is known by the call and the entry it was observed at: entry 0
\* of call k is the error PutEvents returned, call 0 is the encoder's
NoErr == [call |-> 0, entry |-> 0]
OpenErr == [call |-> -1, entry |-> 0]       \* os.OpenFile failed

\* the entry the convertor makes of a detail, for a channel of drive d
convertor(detail, d) ==
    [Source |-> eventSource(<<"oss.gdnotify", d>>, detail.Change),
     DetailType |-> DetailType(detail.Change),
     Detail |-> detail]

\* the whole list goes into one call
Chunk_All(entries) == entries

\* slices.Chunk(entries, 10): the front of what is left
Chunk(entries) ==
    SubSeq(entries, 1, IF Len(entries) < 10 THEN Len(entries) ELSE 10)

\* PutEvents answers for call k: an error, or an output in which some of
\* the first and the last entry carry an error code
PutEventsResponses(k, entries) ==
    {<<[call |-> k, entry |-> 0]>>} \cup
    {SelectSeq([i \in 1..Len(entries) |-> [call |-> k, entry |-> i]],
               LAMBDA e : e.entry \in F) : F \in SUBSET {1, Len(entries)}}

\* kind: NotificationOption.Type; rest: what the loop has still to take;
\* calls: the Entries of each PutEvents call; opened: the event file was
\* opened, and created when missing; written: the details encoded to it;
\* seen: every error met, in order; ret: what SendChanges returned
IdleNotification ==
    [kind |-> "", pc |-> "idle", details |-> <<>>, rest |-> <<>>, calls |-> <<>>,
     opened |-> FALSE, written |-> <<>>, seen |-> <<>>, lastErr |-> NoErr,
     ret |-> NoErr]

\* SendChanges up to its loop: the entries are converted, the file is opened
SendChangesCall ==
    /\ notification.pc = "idle"
    /\ \/ /\ notification.kind = "eventbridge"
          /\ notification' =
                [notification EXCEPT
                    !.pc = "loop",
                    !.rest = [i \in 1..Len(notification.details) |->
                                convertor(notification.details[i], "d1")]]
       \/ /\ notification.kind = "file"
          /\ \/ notification' = [notification EXCEPT !.pc = "loop", !.opened = TRUE,
                                                      !.rest = notification.details]
             \/ notification' = [notification EXCEPT !.pc = "done", !.seen = <<OpenErr>>,
                                                      !.ret = OpenErr]
    /\ UNCHANGED <<appVars, expiry, stream, grants, conv, sending, copier>>

\* one turn of the loop over the chunks
PutEvents ==
    /\ notification.kind = "eventbridge" /\ notification.pc = "loop"
    /\ notification.rest # <<>>
    /\ LET entries == Chunk(notification.rest) IN
       \E errs \in PutEventsResponses(Len(notification.calls) + 1, entries) :
          notification' =
             [notification EXCEPT
                 !.calls = Append(@, entries),
                 !.rest = SubSeq(@, Len(entries) + 1, Len(@)),
                 !.seen = @ \o errs,
                 !.lastErr = IF errs = <<>> THEN @ ELSE errs[Len(errs)]]
    /\ UNCHANGED <<appVars, expiry, stream, grants, conv, sending, copier>>

\* one turn of the loop over the details: encoder.Encode
Encode ==
    /\ notification.kind = "file" /\ notification.pc = "loop"
    /\ notification.rest # <<>>
    /\ \/ notification' = [notification EXCEPT !.rest = Tail(@),
                                                !.written = Append(@, Head(notification.rest))]
       \/ LET err == [call |-> 0,
                      entry |-> Len(notification.details) - Len(notification.rest) + 1]
          IN  notification' = [notification EXCEPT !.rest = Tail(@),
                                                   !.seen = Append(@, err),
                                                   !.lastErr = err]
    /\ UNCHANGED <<appVars, expiry, stream, grants, conv, sending, copier>>

\* return lastErr
SendChangesReturn ==
    /\ notification.pc = "loop" /\ notification.rest = <<>>
    /\ notification' = [notification EXCEPT !.pc = "done", !.ret = notification.lastErr]
    /\ UNCHANGED <<appVars, expiry, stream, grants, conv, sending, copier>>

(***************************************************************************)
(* S3Copier.Copy                                                           *)
(***************************************************************************)
\* the last rule that matches is returned
Match_Last(rules, i) ==
    LET S == {j \in i..Len(rules) : rules[j].When = "true"}
    IN  IF S = {} THEN [index |-> 0, err |-> FALSE]
        ELSE [index |-> CHOOSE j \in S : \A k \in S : k <= j, err |-> FALSE]

\* S3CopyConfig.Match, from rule i on: the index of the rule returned, 0
\* for none
RECURSIVE Match(_, _)
Match(rules, i) ==
    IF i > Len(rules) THEN [index |-> 0, err |-> FALSE]
    ELSE LET matched == rules[i].When = "true"
             err == rules[i].When = "error"
         IN  IF err THEN [index |-> 0, err |-> TRUE]
             ELSE IF matched THEN [index |-> i, err |-> FALSE]
             ELSE Match(rules, i + 1)

\* the endpoint called and the format asked for; no call is made for a
\* format that ExportMIMETypes does not know
DownloadOrExport(fileMimeType, exportFormat) ==
    LET IsGoogleWorkspaceFile == HasPrefix(fileMimeType, "application/vnd.google-apps.")
        ExportMIMETypes == {"pdf", "xlsx", "docx", "pptx", "csv", "txt", "html",
                            "rtf", "odt", "ods", "odp", "png", "jpeg", "svg"}
        format == IF exportFormat = "" THEN "pdf" ELSE exportFormat
    IN  IF IsGoogleWorkspaceFile
        THEN IF format \in ExportMIMETypes
             THEN [endpoint |-> "export", format |-> format, err |-> FALSE]
             ELSE [endpoint |-> "", format |-> "", err |-> TRUE]
        ELSE [endpoint |-> "download", format |-> "", err |-> FALSE]

\* matched: the rule Match returned; applied: the rule the copy was made
\* under; endpoint, format: the upstream call made; copied: a CopyResult
\* was returned
IdleCopier ==
    [pc |-> "idle", detail |-> [Change |-> NoChange, EntityID |-> ""], rules |-> <<>>,
     matched |-> 0, applied |-> 0, endpoint |-> "", format |-> "", copied |-> FALSE]

Copy ==
    /\ copier.pc = "idle"
    /\ LET detail == copier.detail
           rules == copier.rules
           m == Match(rules, 1)
           getFileID == IF detail.Change # NoChange /\ detail.Change.FileID # ""
                        THEN detail.Change.FileID ELSE detail.EntityID
           getFileMimeType == IF detail.Change # NoChange /\ detail.Change.File # NoFile
                              THEN detail.Change.File.MimeType ELSE <<>>
           d == DownloadOrExport(getFileMimeType, rules[m.index].Export)
           nothing == [copier EXCEPT !.pc = "done"]
       IN  \E fail \in {"", "bucket_name", "object_key", "download", "upload"} :
              copier' =
                 IF detail.Change # NoChange /\ detail.Change.Removed THEN nothing
                 ELSE IF m.err \/ m.index = 0 THEN nothing
                 ELSE IF rules[m.index].Skip THEN [nothing EXCEPT !.matched = m.index]
                 ELSE IF fail \in {"bucket_name", "object_key"} \/ getFileID = ""
                 THEN [nothing EXCEPT !.matched = m.index]
                 ELSE [nothing EXCEPT
                          !.matched = m.index,
                          !.applied = m.index,
                          !.endpoint = d.endpoint,
                          !.format = d.format,
                          !.copied = ~d.err /\ fail = ""]
    /\ UNCHANGED <<appVars, expiry, stream, grants, conv, sending, notification>>

(***************************************************************************)
(* handleSync: POST /sync                                                  *)
(***************************************************************************)
\* syncChannels is called once maintenanceChannels has returned
HandleSyncChannels(s, m) == pc[m] = "done" /\ SyncStart(s)

\* the status answered once both have returned
HandleSyncReply(s, m) ==
    /\ pc[m] = "done" /\ pc[s] = "done" /\ syn[s].status = 0
    /\ syn' = [syn EXCEPT ![s].status =
                 IF run[m].err # "" \/ syn[s].err # "" THEN 500 ELSE 200]
    /\ UNCHANGED <<unitVars, initial, call, backend, store, now, webhookAddress, changeLog, subs,
                   nextID, emitted, web, pull, pc, driveList, run, task, faults>>

(***************************************************************************)
(* Upstream: start page token, watch, stop, drives.list                    *)
(***************************************************************************)
\* changes.getStartPageToken: the cursor at the end of the drive's log
GetStartPageTokenResponses(drive) ==
    {[err |-> "", token |-> changeLog[drive]]}
    \cup (IF CanFail THEN {[err |-> "Upstream", token |-> NoToken]} ELSE {})

\* changes.watch: the server answers with the expiration it grants
WatchResponses(requested) ==
    {[err |-> "", expiration |-> e] : e \in {requested} \cup grants}
    \cup (IF CanFail THEN {[err |-> "Upstream", expiration |-> 0]} ELSE {})

\* channels.stop: NotFound when the subscription is not live
StopResponses(id) ==
    {[err |-> IF id \in subs THEN "" ELSE "NotFound"]}
    \cup (IF CanFail THEN {[err |-> "Upstream"]} ELSE {})

\* App.Drives / App.DriveIDs: the sentinel plus what drives.list returns
DriveIDsResponses ==
    {[err |-> "", ids |-> {DefaultDriveID} \cup driveList]}
    \cup (IF CanFail THEN {[err |-> "Upstream", ids |-> {}]} ELSE {})

(***************************************************************************)
(* maintenanceChannels and its tasks                                       *)
(***************************************************************************)
IdleRun == [err |-> ""]

\* pc: "none" (not started), "start", "token", "watch", "save", "stop",
\* "delete", "end".  todo: the channels still to be deleted; inRotate: the
\* head of todo is the channel RotateChannel is replacing; ret: what the
\* task's last DeleteChannel call returned.
IdleTask ==
    [pc |-> "none", item |-> NoItem, todo |-> <<>>, inRotate |-> FALSE,
     err |-> "", failed |-> FALSE, created |-> NoChannel, ret |-> ""]

TaskIDs == RunIDs \X TaskKinds \X Drives

ChannelsOf(items, d) == SelectSeq(items, LAMBDA it : it.DriveID = d)

RotationTargets(channels) ==
    SelectSeq(channels, LAMBDA it : IsAboutToExpired(it, rotateRemaining))

NoRotateExists(channels) ==
    \E i \in 1..Len(channels) : ~IsAboutToExpired(channels[i], rotateRemaining)

\* the task maintenanceChannels starts for a kind and a drive, if any
NewTask(kind, d, ids, items) ==
    LET channels == ChannelsOf(items, d)
        targets == RotationTargets(channels)
    IN  IF kind = "create" /\ d \in ids /\ channels = <<>>
        THEN [IdleTask EXCEPT !.pc = "token",
                              !.item = [NoItem EXCEPT !.DriveID = d]]
        ELSE IF kind = "rotate" /\ channels # <<>>
                /\ ~(NoRotateExists(channels) /\ Len(targets) = 0)
        THEN [IdleTask EXCEPT !.pc = "start", !.item = targets[1],
                              !.todo = targets, !.inRotate = TRUE]
        ELSE IF kind = "delete" /\ channels # <<>> /\ d \notin ids
        THEN [IdleTask EXCEPT !.pc = "stop", !.todo = channels]
        ELSE IdleTask

\* no address is asked for
AddressMissing_Never == FALSE

\* maintenanceChannels refuses to run without a webhook address
AddressMissing == webhookAddress = ""

MaintainStart(m) ==
    /\ pc[m] = "idle"
    /\ IF AddressMissing
       THEN /\ run' = [run EXCEPT ![m].err = "webhook address is empty"]
            /\ pc' = [pc EXCEPT ![m] = "done"]
            /\ UNCHANGED <<task, faults>>
       ELSE \E scan \in FindAllChannels(store), dr \in DriveIDsResponses :
            /\ ~(scan.cut /\ dr.err # "")
            /\ Charge(scan.err \in Injected \/ scan.cut \/ dr.err \in Injected)
            /\ IF scan.err # "" \/ dr.err # ""
               THEN /\ run' = [run EXCEPT ![m].err =
                                 IF scan.err # "" THEN scan.err ELSE dr.err]
                    /\ pc' = [pc EXCEPT ![m] = "done"]
                    /\ UNCHANGED task
               ELSE /\ task' = [x \in TaskIDs |->
                                  IF x[1] = m
                                  THEN NewTask(x[2], x[3], dr.ids, scan.items)
                                  ELSE task[x]]
                    /\ pc' = [pc EXCEPT ![m] = "wait"]
                    /\ UNCHANGED run
    /\ UNCHANGED <<unitVars, initial, call, backend, store, now, webhookAddress, changeLog, subs,
                   nextID, emitted, web, syn, pull, driveList>>

Ended(m, kind) == \A d \in Drives : task[<<m, kind, d>>].pc \in {"none", "end"}

\* the errors of the tasks are dropped
GroupError_Dropped(m, kind) == ""

GroupError(m, kind) ==
    IF \E d \in Drives : task[<<m, kind, d>>].err # ""
    THEN LET d == CHOOSE d \in Drives : task[<<m, kind, d>>].err # ""
         IN  task[<<m, kind, d>>].err
    ELSE ""

\* egForNew.Wait(), then egForRotate.Wait(); the delete group is not waited for
MaintainWait(m) ==
    /\ pc[m] = "wait"
    /\ Ended(m, "create")
    /\ GroupError(m, "create") # "" \/ Ended(m, "rotate")
    /\ run' = [run EXCEPT ![m].err =
                 IF GroupError(m, "create") # "" THEN GroupError(m, "create")
                 ELSE GroupError(m, "rotate")]
    /\ pc' = [pc EXCEPT ![m] = "done"]
    /\ UNCHANGED <<unitVars, initial, call, backend, store, now, webhookAddress, changeLog, subs,
                   nextID, emitted, web, syn, pull, driveList, task, faults>>

\* a task returns
EndTask(t, err) ==
    [t EXCEPT !.pc = "end", !.err = err, !.item = NoItem, !.todo = <<>>,
              !.inRotate = FALSE, !.failed = t.failed \/ err # ""]

\* CreateChannel: getStartPageToken
CreateToken(x) ==
    /\ x[2] = "create" /\ task[x].pc = "token"
    /\ \E r \in GetStartPageTokenResponses(x[3]) :
          /\ Charge(r.err \in Injected)
          /\ task' = [task EXCEPT ![x] =
                     IF r.err # "" THEN EndTask(@, r.err)
                     ELSE [@ EXCEPT !.pc = "watch", !.item.PageToken = r.token]]
    /\ UNCHANGED <<unitVars, initial, call, backend, store, now, webhookAddress, changeLog, subs,
                   nextID, emitted, web, syn, pull, pc, driveList, run>>

\* the page token is never taken to be old
RefreshDue_Never(item) == FALSE

RefreshDue(item) == now - item.PageTokenFetchedAt >= pageTokenRefreshIntervalDays

\* RotateChannel: the start page token is fetched again when it is old;
\* a failure is logged and the old token is kept
RotateToken(x) ==
    /\ x[2] = "rotate" /\ task[x].pc = "start"
    /\ RefreshDue(task[x].item)
    /\ \E r \in GetStartPageTokenResponses(x[3]) :
          /\ Charge(r.err \in Injected)
          /\ task' = [task EXCEPT ![x] =
                     IF r.err # "" THEN [@ EXCEPT !.pc = "watch", !.failed = TRUE]
                     ELSE [@ EXCEPT !.pc = "watch", !.item.PageToken = r.token,
                                    !.item.PageTokenFetchedAt = now]]
    /\ UNCHANGED <<unitVars, initial, call, backend, store, now, webhookAddress, changeLog, subs,
                   nextID, emitted, web, syn, pull, pc, driveList, run>>

\* createChannel up to the watch call: a new id and the timestamps
PrepareChannel(item, id) ==
    [item EXCEPT !.ChannelID = id, !.Expiration = now + expiration,
                 !.CreatedAt = now, !.UpdatedAt = now,
                 !.PageTokenFetchedAt = IF @ = 0 THEN now ELSE @]

\* createChannel: changes.watch
Watch(x) ==
    /\ \/ task[x].pc = "watch"
       \/ x[2] = "rotate" /\ task[x].pc = "start" /\ ~RefreshDue(task[x].item)
    /\ \E r \in WatchResponses(now + expiration) :
          /\ Charge(r.err \in Injected)
          /\ IF r.err # ""
             THEN /\ task' = [task EXCEPT ![x] = EndTask(@, r.err)]
                  /\ UNCHANGED <<subs, nextID>>
             ELSE /\ task' = [task EXCEPT ![x] =
                        [@ EXCEPT !.pc = "save", !.created = nextID,
                                  !.item = [PrepareChannel(@, nextID) EXCEPT
                                              !.ResourceID = nextID,
                                              !.Expiration = r.expiration]]]
                  /\ subs' = subs \cup {nextID}
                  /\ nextID' = nextID + 1
    /\ UNCHANGED <<unitVars, initial, call, backend, store, now, webhookAddress, changeLog, emitted,
                   web, syn, pull, pc, driveList, run>>

\* createChannel: Storage.SaveChannel; a create task returns, a rotate task
\* goes on to delete the old channel
Save(x) ==
    /\ task[x].pc = "save"
    /\ \E res \in StoreOutcomes(SaveChannel(store, task[x].item), store) :
          /\ store' = res.items
          /\ Charge(res.err \in Injected)
          /\ task' = [task EXCEPT ![x] =
                        IF res.err # "" \/ x[2] = "create"
                        THEN EndTask(@, res.err)
                        ELSE [@ EXCEPT !.pc = "stop"]]
    /\ UNCHANGED <<unitVars, initial, call, backend, now, webhookAddress, changeLog, subs, nextID,
                   emitted, web, syn, pull, pc, driveList, run>>

\* the task returns after the first DeleteChannel
Deleted_FirstOnly(t, err) ==
    EndTask([t EXCEPT !.ret = err], IF t.inRotate THEN err ELSE "")

\* DeleteChannel returned for the head of todo: RotateChannel passes the
\* error on, the loops over the other channels log it and go on
Deleted(t, err) ==
    LET u == [t EXCEPT !.ret = err] IN
    IF u.inRotate /\ err # "" THEN EndTask(u, err)
    ELSE IF Len(u.todo) = 1 THEN EndTask([u EXCEPT !.failed = @ \/ err # ""], "")
    ELSE [u EXCEPT !.pc = "stop", !.todo = Tail(@), !.inRotate = FALSE,
                   !.failed = @ \/ err # ""]

\* any answer of channels.stop lets DeleteChannel go on
Stopped_AnyError(t, err) == [t EXCEPT !.pc = "delete"]

\* channels.stop answered for the head of todo: DeleteChannel goes on to the
\* store on success and on 404, and returns any other error
Stopped(t, err) ==
    IF err = "" THEN [t EXCEPT !.pc = "delete"]
    ELSE IF err = "NotFound" THEN [t EXCEPT !.pc = "delete", !.failed = TRUE]
    ELSE Deleted(t, err)

\* DeleteChannel: channels.stop
Stop(x) ==
    /\ task[x].pc = "stop"
    /\ \E r \in StopResponses(task[x].todo[1].ChannelID) :
          /\ subs' = IF r.err = "" THEN subs \ {task[x].todo[1].ChannelID} ELSE subs
          /\ Charge(r.err \in Injected)
          /\ task' = [task EXCEPT ![x] = Stopped(@, r.err)]
    /\ UNCHANGED <<unitVars, initial, call, backend, store, now, webhookAddress, changeLog, nextID,
                   emitted, web, syn, pull, pc, driveList, run>>

\* DeleteChannel: Storage.DeleteChannel
Delete(x) ==
    /\ task[x].pc = "delete"
    /\ \E res \in StoreOutcomes(DeleteChannelRecord(store, task[x].todo[1]), store) :
          /\ store' = res.items
          /\ Charge(res.err \in Injected)
          /\ task' = [task EXCEPT ![x] = Deleted(@, res.err)]
    /\ UNCHANGED <<unitVars, initial, call, backend, now, webhookAddress, changeLog, subs, nextID,
                   emitted, web, syn, pull, pc, driveList, run>>


(***************************************************************************)
(* The Storage interface called on its own                                 *)
(***************************************************************************)
NoCall == [op |-> "", arg |-> NoItem, err |-> ""]

StorageCall(op, arg, result) ==
    /\ \E res \in StoreOutcomes(result, store) :
          /\ store' = res.items
          /\ call' = [op |-> op, arg |-> arg, err |-> res.err]
          /\ Charge(res.err \in Injected)
    /\ UNCHANGED <<unitVars, initial, backend, now, webhookAddress, changeLog, subs,
                   nextID, emitted, web, syn, pull, pc, driveList, run, task>>

StorageSaveChannel(item) ==
    StorageCall("SaveChannel", item, SaveChannel(store, item))

StorageUpdatePageToken(target) ==
    StorageCall("UpdatePageToken", target, UpdatePageToken(store, target))

StorageDeleteChannel(target) ==
    StorageCall("DeleteChannel", target, DeleteChannelRecord(store, target))

(***************************************************************************)
(* Initial states                                                          *)
(***************************************************************************)
Procs == WebIDs \cup SyncIDs \cup RunIDs

WebhookURL == "https://gdnotify.example"
GoogleAgent == <<"APIs-Google;", "(+https://developers.google.com/webmasters/APIs-Google.html)">>

\* a channel created the day before, one that is about to expire, and one
\* whose start page token was fetched long ago
Fresh(id, d) ==
    ChannelItem(id, d, 0, StartTime - 1 + expiration, StartTime - 1,
                StartTime - 1, StartTime - 1)

Expiring(id, d) ==
    ChannelItem(id, d, 0, StartTime + rotateRemaining,
                StartTime + rotateRemaining - expiration,
                StartTime + rotateRemaining - expiration,
                StartTime + rotateRemaining - expiration)

ExpiringOld(id, d) ==
    [Expiring(id, d) EXCEPT
        !.PageTokenFetchedAt = StartTime - pageTokenRefreshIntervalDays]

Config(items, listed) == [store |-> items, driveList |-> listed]

InitApp(configs, addresses) ==
    /\ backend \in Backends
    /\ \E c \in configs : store = c.store /\ driveList = c.driveList
    /\ now = StartTime
    /\ webhookAddress \in addresses
    /\ changeLog = [d \in Drives |-> 0]
    /\ subs = {store[i].ChannelID : i \in 1..Len(store)}
    /\ nextID = Len(store) + 1
    /\ emitted = {}
    /\ web = [w \in WebIDs |-> IdleRequest]
    /\ syn = [s \in SyncIDs |-> IdleSync]
    /\ pull = [p \in Pullers |-> IdlePull]
    /\ pc = [p \in Procs |-> "idle"]
    /\ run = [m \in RunIDs |-> IdleRun]
    /\ task = [x \in TaskIDs |-> IdleTask]
    /\ faults = 0
    /\ call = NoCall
    /\ initial = store

\* the application alone: nothing is exercised on its own
InitWith(configs, addresses) ==
    /\ InitApp(configs, addresses)
    /\ conv = IdleConv
    /\ sending = IdleSending
    /\ notification = IdleNotification
    /\ copier = IdleCopier
    /\ expiry = IdleExpiry
    /\ stream = IdleStream
    /\ grants = {}

\* a part on its own: the application stays as constructed
InitUnit ==
    /\ InitApp({Config(<<>>, {})}, {WebhookURL})
    /\ backend = "dynamodb"
    /\ grants = {}

(***************************************************************************)
(* Pulls: change pokes, syncChannels and a maintenance run that deletes    *)
(* the channels of a drive that is no longer listed                        *)
(***************************************************************************)
PullConfigs == {Config(<<Fresh(1, DefaultDriveID), Fresh(2, "d1")>>, {})}

\* the X-Goog-Channel-Id of the pokes: a stored channel and an unknown one
PokedIDs == {2, 3}

Init == InitWith(PullConfigs, {WebhookURL})

Next ==
    \/ \E id \in PokedIDs : WebhookReceive("w1", GoogleAgent, "change", id, "")
    \/ WebhookFind("w1")
    \/ \E s \in SyncIDs : SyncStart(s)
    \/ \E p \in Pullers : PullList(p)
    \/ \E p \in Pullers : PullUpdate(p)
    \/ \E p \in Pullers : PullEmit(p)
    \/ UpstreamChange("d1")
    \/ Tick
    \/ MaintainStart("m1")
    \/ MaintainWait("m1")
    \/ \E x \in TaskIDs : Stop(x)
    \/ \E x \in TaskIDs : Delete(x)

Spec == Init /\ [][Next]_vars

(***************************************************************************)
(* Webhook: POST / with any headers, two requests at a time, and a         *)
(* maintenance run that deletes the channels of a drive no longer listed   *)
(***************************************************************************)
\* User-Agent values: Google's, one that only mentions it, and none
UserAgents == {GoogleAgent, <<"Mozilla/5.0", "APIs-Google;">>, <<>>}

\* X-Goog-Resource-State values
ResourceStates == {"change", "sync", "update", ""}

NextWebhook ==
    \/ \E ua \in UserAgents, st \in ResourceStates, id \in PokedIDs :
          WebhookReceive("w1", ua, st, id, "")
    \/ /\ pc["w1"] # "idle"
       /\ \E id \in PokedIDs : WebhookReceive("w2", GoogleAgent, "change", id, "")
    \/ \E w \in WebIDs : WebhookFind(w)
    \/ \E w \in WebIDs : PullList(w)
    \/ \E w \in WebIDs : PullUpdate(w)
    \/ \E w \in WebIDs : PullEmit(w)
    \/ UpstreamChange("d1")
    \/ Tick
    \/ MaintainStart("m1")
    \/ MaintainWait("m1")
    \/ \E x \in TaskIDs : Stop(x)
    \/ \E x \in TaskIDs : Delete(x)

SpecWebhook == Init /\ [][NextWebhook]_vars

(***************************************************************************)
(* Sync: one POST /sync, maintenanceChannels and then syncChannels         *)
(***************************************************************************)
\* every listed drive has a channel; a listed drive has none; a drive that
\* has a channel is no longer listed
SyncConfigs ==
    {Config(<<Fresh(1, DefaultDriveID), Fresh(2, "d1")>>, {"d1"}),
     Config(<<Fresh(1, DefaultDriveID)>>, {"d1"}),
     Config(<<Fresh(1, DefaultDriveID), Fresh(2, "d1")>>, {})}

InitSync == InitWith(SyncConfigs, {"", WebhookURL})

NextSync ==
    \/ MaintainStart("m1")
    \/ MaintainWait("m1")
    \/ \E x \in TaskIDs : CreateToken(x)
    \/ \E x \in TaskIDs : Watch(x)
    \/ \E x \in TaskIDs : Save(x)
    \/ \E x \in TaskIDs : Stop(x)
    \/ \E x \in TaskIDs : Delete(x)
    \/ HandleSyncChannels("s1", "m1")
    \/ \E s \in SyncIDs : PullList(s)
    \/ \E s \in SyncIDs : PullUpdate(s)
    \/ \E s \in SyncIDs : PullEmit(s)
    \/ HandleSyncReply("s1", "m1")
    \/ UpstreamChange("d1")

SpecSync == InitSync /\ [][NextSync]_vars

(***************************************************************************)
(* Conversion: the entry fields of any one change                          *)
(***************************************************************************)
\* no change, and the changes of every type with and without a file
InitConvert ==
    /\ InitUnit
    /\ expiry = IdleExpiry
    /\ stream = IdleStream
    /\ LET ConvertedChanges ==
               {NoChange} \cup
               {Change(t, r, f, file, d) :
                   t \in {"file", "drive", "user", ""}, r \in BOOLEAN,
                   f \in {"", "f1"},
                   file \in {NoFile, File(FALSE, <<"text/plain">>, StartTime),
                             File(TRUE, <<"text/plain">>, StartTime)},
                   d \in {"", "d1"}}
       IN  conv \in {[IdleConv EXCEPT !.change = c] : c \in ConvertedChanges}
    /\ sending = IdleSending
    /\ notification = IdleNotification
    /\ copier = IdleCopier

NextConvert == Convert("d1")

SpecConvert == InitConvert /\ [][NextConvert]_vars

(***************************************************************************)
(* Filter: SendNotification with and without withinModifiedTime            *)
(***************************************************************************)
\* a change without a file, and files whose modifiedTime does not parse, is
\* now, is one day old, is two days old, is a day ahead
SeqsUpTo(S, n) == UNION {[1..k -> S] : k \in 0..n}

InitFilter ==
    /\ InitUnit
    /\ expiry = IdleExpiry
    /\ stream = IdleStream
    /\ LET SentChanges ==
               {Change("drive", FALSE, "", NoFile, "d1")} \cup
               {Change("file", FALSE, "f1", File(FALSE, <<"text/plain">>, t), "") :
                   t \in {NoTime, StartTime, StartTime - 1, StartTime - 2,
                          StartTime + 1}}
       IN  sending \in {[IdleSending EXCEPT !.changes = cs, !.within = w] :
                           cs \in SeqsUpTo(SentChanges, MaxSent),
                           w \in {NoDuration, 1}}
    /\ conv = IdleConv
    /\ notification = IdleNotification
    /\ copier = IdleCopier

NextFilter == SendNotification

SpecFilter == InitFilter /\ [][NextFilter]_vars

(***************************************************************************)
(* Emitters: one SendChanges call on either emitter                        *)
(***************************************************************************)
\* the i-th detail of a call: file changes and drive changes alternate
InitNotification ==
    /\ InitUnit
    /\ expiry = IdleExpiry
    /\ stream = IdleStream
    /\ LET DetailOf(i) ==
               [Subject |-> i,
                Change |-> IF i % 2 = 1
                           THEN Change("file", FALSE, "f1",
                                       File(i % 3 = 0, <<"text/plain">>, StartTime), "")
                           ELSE Change("drive", i % 4 = 0, "", NoFile, "d1")]
       IN  \E kind \in {"eventbridge", "file"} :
           \E n \in 0..(IF kind = "file" THEN MaxSent ELSE MaxDetails) :
              notification = [IdleNotification EXCEPT
                                 !.kind = kind,
                                 !.details = [i \in 1..n |-> DetailOf(i)]]
    /\ conv = IdleConv
    /\ sending = IdleSending
    /\ copier = IdleCopier

NextNotification ==
    \/ SendChangesCall
    \/ PutEvents
    \/ Encode
    \/ SendChangesReturn

SpecNotification == InitNotification /\ [][NextNotification]_vars

(***************************************************************************)
(* Copier: one S3Copier.Copy call under any rules                          *)
(***************************************************************************)
\* what a rule's when gives for the detail of the call: true, false or an
\* evaluation error; export: unset, a known format, an unknown one
InitCopier ==
    /\ InitUnit
    /\ expiry = IdleExpiry
    /\ stream = IdleStream
    /\ LET Docs == <<"application/vnd.google-apps.", "document">>
           Changes ==
               {NoChange,
                Change("file", TRUE, "f1", File(FALSE, <<"text/plain">>, StartTime), ""),
                Change("file", FALSE, "f1", File(FALSE, <<"text/plain">>, StartTime), ""),
                Change("file", FALSE, "f1", File(FALSE, Docs, StartTime), ""),
                Change("file", FALSE, "", NoFile, "")}
           Details ==
               {[Change |-> c, EntityID |-> "f1"] : c \in Changes}
               \cup {[Change |-> NoChange, EntityID |-> ""]}
           Rules ==
               [When : {"true", "false", "error"}, Skip : BOOLEAN,
                Export : {"", "xlsx", "xyz"}]
       IN  copier \in {[IdleCopier EXCEPT !.detail = d, !.rules = rs] :
                          d \in Details,
                          rs \in SeqsUpTo(Rules, MaxRules) \ {<<>>}}
    /\ conv = IdleConv
    /\ sending = IdleSending
    /\ notification = IdleNotification

NextCopier == Copy

SpecCopier == InitCopier /\ [][NextCopier]_vars

(***************************************************************************)
(* Rotation: one maintenanceChannels run over a listed drive that has a    *)
(* channel about to expire next to one that is not                         *)
(***************************************************************************)
RotateConfigs ==
    {Config(<<Fresh(1, DefaultDriveID), Fresh(2, "d1"), Expiring(3, "d1")>>, {"d1"}),
     Config(<<Fresh(1, DefaultDriveID), Expiring(2, "d1"), Fresh(3, "d1")>>, {"d1"}),
     Config(<<Fresh(1, DefaultDriveID), Fresh(2, "d1"), ExpiringOld(3, "d1")>>,
            {"d1"}),
     Config(<<Fresh(1, DefaultDriveID), Fresh(2, "d1"), Expiring(3, "d1"),
              ExpiringOld(4, "d1")>>, {"d1"}),
     Config(<<Fresh(1, DefaultDriveID), ExpiringOld(2, "d1")>>, {"d1"})}

InitRotate == InitWith(RotateConfigs, {WebhookURL})

NextRotate ==
    \/ MaintainStart("m1")
    \/ MaintainWait("m1")
    \/ \E x \in TaskIDs : RotateToken(x)
    \/ \E x \in TaskIDs : Watch(x)
    \/ \E x \in TaskIDs : Save(x)
    \/ \E x \in TaskIDs : Stop(x)
    \/ \E x \in TaskIDs : Delete(x)
    \/ UpstreamChange("d1")

SpecRotate == InitRotate /\ [][NextRotate]_vars

(***************************************************************************)
(* Expiry: IsAboutToExpired for channels around the threshold              *)
(***************************************************************************)
InitExpire ==
    /\ InitUnit
    /\ expiry \in {[IdleExpiry EXCEPT !.item.ChannelID = 1, !.item.Expiration = e,
                                      !.remaining = r] :
                      e \in (StartTime - MaxRemaining)..(StartTime + MaxRemaining + 1),
                      r \in 0..MaxRemaining}
    /\ conv = IdleConv
    /\ sending = IdleSending
    /\ notification = IdleNotification
    /\ copier = IdleCopier
    /\ stream = IdleStream

NextExpire == CheckExpired

SpecExpire == InitExpire /\ [][NextExpire]_vars

(***************************************************************************)
(* Stream: FindAllChannels of both stores over tables of up to four rows   *)
(***************************************************************************)
InitScan ==
    /\ InitApp({Config(<<>>, {}),
                Config(<<Fresh(1, DefaultDriveID)>>, {}),
                Config(<<Fresh(1, DefaultDriveID), Fresh(2, "d1")>>, {}),
                Config(<<Fresh(1, DefaultDriveID), Fresh(2, "d1"),
                         Expiring(3, "d1")>>, {}),
                Config(<<Fresh(1, DefaultDriveID), Fresh(2, "d1"),
                         Expiring(3, "d1"), ExpiringOld(4, "d1")>>, {})},
               {WebhookURL})
    /\ stream \in {[IdleStream EXCEPT !.limit = n] : n \in 1..MaxScanPage}
    /\ conv = IdleConv
    /\ sending = IdleSending
    /\ notification = IdleNotification
    /\ copier = IdleCopier
    /\ expiry = IdleExpiry
    /\ grants = {}

NextScan == ScanStart \/ ScanBackground

SpecScan == InitScan /\ [][NextScan]_vars

(***************************************************************************)
(* Grants: one maintenanceChannels run against an upstream that may grant  *)
(* an expiration other than the one asked for                              *)
(***************************************************************************)
InitGrant ==
    /\ InitApp(RotateConfigs \cup {Config(<<>>, {})}, {WebhookURL})
    /\ conv = IdleConv
    /\ sending = IdleSending
    /\ notification = IdleNotification
    /\ copier = IdleCopier
    /\ expiry = IdleExpiry
    /\ stream = IdleStream
    /\ grants = {StartTime, StartTime + 1}

NextGrant ==
    \/ MaintainStart("m1")
    \/ MaintainWait("m1")
    \/ \E x \in TaskIDs : CreateToken(x)
    \/ \E x \in TaskIDs : RotateToken(x)
    \/ \E x \in TaskIDs : Watch(x)
    \/ \E x \in TaskIDs : Save(x)
    \/ \E x \in TaskIDs : Stop(x)
    \/ \E x \in TaskIDs : Delete(x)

SpecGrant == InitGrant /\ [][NextGrant]_vars

(***************************************************************************)
(* Maintenance: overlapping maintenanceChannels runs                       *)
(***************************************************************************)
\* nothing stored; a listed drive without a channel; a listed drive all of
\* whose channels are about to expire; the same for a drive no longer listed
MaintainConfigs ==
    {Config(<<>>, {}),
     Config(<<Fresh(1, DefaultDriveID)>>, {"d1"}),
     Config(<<Fresh(1, DefaultDriveID), Expiring(2, "d1"), ExpiringOld(3, "d1")>>,
            {"d1"}),
     Config(<<Fresh(1, DefaultDriveID), Expiring(2, "d1")>>, {"d1"}),
     Config(<<Fresh(1, DefaultDriveID), ExpiringOld(2, "d1")>>, {})}

InitMaintain == InitWith(MaintainConfigs, {"", WebhookURL})

NextMaintain ==
    \/ MaintainStart("m1")
    \/ pc["m1"] # "idle" /\ MaintainStart("m2")
    \/ \E m \in RunIDs : MaintainWait(m)
    \/ \E x \in TaskIDs : CreateToken(x)
    \/ \E x \in TaskIDs : RotateToken(x)
    \/ \E x \in TaskIDs : Watch(x)
    \/ \E x \in TaskIDs : Save(x)
    \/ \E x \in TaskIDs : Stop(x)
    \/ \E x \in TaskIDs : Delete(x)

SpecMaintain == InitMaintain /\ [][NextMaintain]_vars

(***************************************************************************)
(* Storage: any sequence of SaveChannel, UpdatePageToken and DeleteChannel *)
(***************************************************************************)
StorageItems ==
    {ChannelItem(id, "d1", t, StartTime + expiration, StartTime, StartTime, u) :
        id \in 1..MaxStored, t \in 0..MaxChanges,
        u \in StartTime..(StartTime + MaxTicks)}

InitStorage == InitWith({Config(<<>>, {})}, {WebhookURL})

NextStorage ==
    \/ \E item \in StorageItems : StorageSaveChannel(item)
    \/ \E item \in StorageItems : StorageUpdatePageToken(item)
    \/ \E item \in StorageItems : StorageDeleteChannel(item)

SpecStorage == InitStorage /\ [][NextStorage]_vars

(***************************************************************************)
(* Claims                                                                  *)
(***************************************************************************)

\* C1: under any interleaving of concurrent pulls on a channel (change pokes
\* and syncChannels), the channel's stored PageToken never moves backwards:
\* no step replaces it with a cursor the upstream issued earlier.
C1_PageTokenNeverMovesBack ==
    [][\A i \in 1..Len(store) : \A j \in 1..Len(store') :
          store'[j].ChannelID = store[i].ChannelID
              => store'[j].PageToken >= store[i].PageToken]_vars

\* C2: in both backends UpdatePageToken(ch) succeeds only when a record with
\* ch.ChannelID exists whose stored UpdatedAt is strictly less than
\* ch.UpdatedAt; in every other case it returns an error and the store is
\* unchanged.
C2_UpdateOnlyWhenNewer ==
    [][(call' # call /\ call'.op = "UpdatePageToken") =>
          LET newer == \E i \in 1..Len(store) :
                          /\ store[i].ChannelID = call'.arg.ChannelID
                          /\ store[i].UpdatedAt < call'.arg.UpdatedAt
          IN  /\ call'.err = "" => newer
              /\ ~newer => call'.err # "" /\ store' = store]_vars

\* C3: when two pulls run concurrently on the same channel and both started
\* from the same stored PageToken, at most one of their UpdatePageToken calls
\* succeeds.
C3_AtMostOneAdvance ==
    \A p \in Pullers : \A q \in Pullers \ {p} :
        (/\ pull[p].item.ChannelID # NoChannel
         /\ pull[p].item.ChannelID = pull[q].item.ChannelID
         /\ pull[p].item.PageToken = pull[q].item.PageToken)
            => ~(pull[p].upd = "ok" /\ pull[q].upd = "ok")

\* C4: delivery is at-least-once: a channel's stored PageToken is never
\* advanced past a change that the emitter has not accepted.
C4_TokenBehindEmitted ==
    \A i \in 1..Len(store) : \A c \in 1..store[i].PageToken :
        <<store[i].DriveID, c>> \in emitted

\* C5 (as stated): whenever a change poke for a channel that the lookup found
\* in the store is answered 200, a successful UpdatePageToken was issued in
\* the request, with the newStartPageToken of the last page as its PageToken.
C5_AnsweredPokeAdvanced ==
    \A w \in WebIDs :
        (/\ pc[w] = "done" /\ web[w].state = "change"
         /\ web[w].status = 200 /\ pull[w].found)
            => (/\ pull[w].upd = "ok" /\ pull[w].final # NoToken
                /\ pull[w].sent = pull[w].final)

\* C5 (amended): whenever a change poke is answered 200 for a channel whose
\* record was in the store at the lookup and still there at the page-token
\* update, a successful UpdatePageToken was issued in the request, with the
\* newStartPageToken of the last page as its PageToken.
C5_AnsweredPokeOfKeptChannel ==
    \A w \in WebIDs :
        (/\ pc[w] = "done" /\ web[w].state = "change"
         /\ web[w].status = 200 /\ pull[w].found
         /\ pull[w].err # "ChannelNotFound")
            => (/\ pull[w].upd = "ok" /\ pull[w].final # NoToken
                /\ pull[w].sent = pull[w].final)

\* a poke answered 200 after a pull of two pages moved the token by two
C5_Witness ==
    /\ pc["w1"] = "done" /\ web["w1"].status = 200 /\ pull["w1"].found
    /\ pull["w1"].upd = "ok" /\ pull["w1"].sent > MaxPageLen
    /\ \E i \in 1..Len(store) :
          /\ store[i].ChannelID = web["w1"].channelID
          /\ store[i].PageToken = pull["w1"].sent

\* C6: when changes.list fails on any page of a pull, the pull returns that
\* error and no changes (nothing goes to the emitter), no UpdatePageToken is
\* issued, and the store is as it was.
C6_FailedListLeavesStore ==
    [][\A p \in Pullers :
          (/\ pc[p] = "list" /\ faults' # faults
           /\ <<pull[p], pc[p]>>' # <<pull[p], pc[p]>>)
              => LET r == IF p \in WebIDs THEN pull'[p] ELSE syn'[p].last
                 IN  /\ r.err = "Upstream" /\ r.upd = "none" /\ r.changes = {}
                     /\ pc'[p] \notin {"update", "emit"}
                     /\ store' = store /\ emitted' = emitted]_vars

\* a poke whose second page failed: answered 500, token where it was
C6_Witness ==
    /\ pc["w1"] = "done" /\ web["w1"].status = 500
    /\ pull["w1"].err = "Upstream" /\ pull["w1"].upd = "none"
    /\ pull["w1"].tok > 0
    /\ \E i \in 1..Len(store) :
          /\ store[i].ChannelID = web["w1"].channelID
          /\ store[i].PageToken = 0 /\ store[i].UpdatedAt < StartTime

\* C7: rotation preserves coverage: a DriveID for which a run has started
\* the rotation (it had a channel in the store then) has at least one channel
\* in the store in every state reached afterwards, whatever call fails.
C7_RotationKeepsCoverage ==
    \A d \in Drives :
        (\E m \in RunIDs : task[<<m, "rotate", d>>].pc # "none")
            => ChannelsOf(store, d) # <<>>

C9_AtMostOneChannelPerDrive ==
    (/\ \A d \in Drives : Len(ChannelsOf(initial, d)) <= 1
     /\ faults = 0
     /\ \A m \in RunIDs : pc[m] \in {"idle", "done"} /\ run[m].err = ""
     /\ \A x \in TaskIDs : task[x].pc \in {"none", "end"})
        => \A d \in Drives : Len(ChannelsOf(store, d)) <= 1

\* C10: when maintenanceChannels has returned without error, __default__ and
\* every DriveID that drives.list returns have a channel in the store, and
\* each create task of the run has gone through getStartPageToken, watch and
\* SaveChannel.
C10_ReturnedRunCoversDrives ==
    \A m \in RunIDs :
        (pc[m] = "done" /\ run[m].err = "")
            => \A d \in {DefaultDriveID} \cup driveList :
                  /\ ChannelsOf(store, d) # <<>>
                  /\ task[<<m, "create", d>>].pc \in {"none", "end"}
                  /\ task[<<m, "create", d>>].pc = "end"
                        => /\ task[<<m, "create", d>>].err = ""
                           /\ task[<<m, "create", d>>].created # NoChannel

\* a run that found a listed drive without a channel and created one
C10_Witness ==
    /\ pc["m1"] = "done" /\ run["m1"].err = "" /\ "d1" \in driveList
    /\ ChannelsOf(initial, "d1") = <<>>
    /\ \E i \in 1..Len(store) :
          /\ store[i].DriveID = "d1"
          /\ store[i].ChannelID = task[<<"m1", "create", "d1">>].created

\* C11: when the store holds channels of a DriveID that drives.list does not
\* return and no call fails (every channels.stop answers success or
\* NotFound), then once maintenanceChannels has returned each of those
\* channels has been stopped upstream and is no longer in the store.
C11_RevokedChannelsDeleted ==
    \A m \in RunIDs :
        (pc[m] = "done" /\ run[m].err = "" /\ faults = 0)
            => \A i \in 1..Len(initial) :
                  initial[i].DriveID \notin ({DefaultDriveID} \cup driveList)
                      => /\ initial[i].ChannelID \notin subs
                         /\ \A j \in 1..Len(store) :
                               store[j].ChannelID # initial[i].ChannelID

\* C12: with an empty webhook address maintenanceChannels returns an error
\* and nothing else happens in the run: no task is started, no watch and no
\* channels.stop is called, and the store is not changed.
C12_NoAddressNoMaintenance ==
    [][webhookAddress = ""
          => /\ store' = store /\ subs' = subs /\ nextID' = nextID
             /\ task' = task
             /\ \A m \in RunIDs :
                   (pc[m] = "idle" /\ pc'[m] # "idle")
                       => pc'[m] = "done" /\ run'[m].err # ""]_vars

\* two runs refused although a listed drive had no channel
C12_Witness ==
    /\ webhookAddress = "" /\ "d1" \in driveList
    /\ ChannelsOf(store, "d1") = <<>> /\ store # <<>> /\ store = initial
    /\ \A m \in RunIDs : pc[m] = "done" /\ run[m].err = "webhook address is empty"
    /\ \A x \in TaskIDs : task[x].pc = "none"

\* C13: DeleteChannel on a channel whose subscription is no longer live
\* (channels.stop answered success or NotFound) returns success and leaves
\* the store without the channel's record, also when it is called on a
\* channel that an earlier DeleteChannel has already removed.
C13_DeleteChannelIdempotent ==
    [][\A x \in TaskIDs :
          (task[x].pc = "delete" /\ task'[x] # task[x] /\ faults' = faults)
              => /\ task'[x].ret = ""
                 /\ \A i \in 1..Len(store') :
                       store'[i].ChannelID # task[x].todo[1].ChannelID]_vars

\* C14: in both backends SaveChannel(ch) on a ChannelID that already has a
\* record fails with ChannelAlreadyExists and leaves the record as it was; on
\* a ChannelID without a record it adds the record.
C14_SaveChannelCreatesOnce ==
    [][(call' # call /\ call'.op = "SaveChannel" /\ faults' = faults) =>
          LET exists == \E i \in 1..Len(store) :
                           store[i].ChannelID = call'.arg.ChannelID
          IN  /\ exists => call'.err = "ChannelAlreadyExists" /\ store' = store
              /\ ~exists => call'.err = "" /\ store' = Append(store, call'.arg)]_vars

\* C15: after any sequence of SaveChannel, UpdatePageToken and DeleteChannel
\* calls no two records of the store have the same ChannelID.
C15_ChannelIDUnique ==
    \A i \in 1..Len(store) : \A j \in 1..Len(store) :
        store[i].ChannelID = store[j].ChannelID => i = j

\* the file store holds two records and the last call, a SaveChannel on the
\* ChannelID of the first one, succeeded
C15_Witness ==
    /\ backend = "file" /\ Len(store) = MaxStored
    /\ call.op = "SaveChannel" /\ call.err = "" /\ store[1] = call.arg

\* C16: a POST / whose User-Agent does not begin with "APIs-Google;" is
\* answered 404 whatever its X-Goog-Resource-State and X-Goog-Channel-Id
\* are: no lookup in the store, no changes.list call, no change of the store
\* and no emitter call.
C16_ForeignAgentRefused ==
    [][\A w \in WebIDs :
          (/\ pc[w] = "idle" /\ pc'[w] # "idle"
           /\ \/ web'[w].userAgent = <<>>
              \/ web'[w].userAgent[1] # "APIs-Google;")
              => /\ web'[w].status = 404 /\ pc'[w] = "done"
                 /\ pull'[w] = IdlePull /\ faults' = faults
                 /\ store' = store /\ emitted' = emitted]_vars

\* a change poke for a stored channel with pending changes, refused because
\* its User-Agent only mentions APIs-Google;
C16_Witness ==
    /\ pc["w1"] = "done" /\ web["w1"].status = 404
    /\ web["w1"].userAgent = <<"Mozilla/5.0", "APIs-Google;">>
    /\ web["w1"].state = "change"
    /\ \E i \in 1..Len(store) :
          /\ store[i].ChannelID = web["w1"].channelID
          /\ store[i].PageToken < changeLog[store[i].DriveID]

\* C17: a POST / with an accepted User-Agent whose X-Goog-Resource-State is
\* anything other than "change" is answered 200 for any X-Goog-Channel-Id,
\* with no changes.list call, no change of the store and no emitter call.
C17_OtherStatesTolerated ==
    [][\A w \in WebIDs :
          (/\ pc[w] = "idle" /\ pc'[w] # "idle"
           /\ web'[w].userAgent # <<>>
           /\ web'[w].userAgent[1] = "APIs-Google;"
           /\ web'[w].state # "change")
              => /\ web'[w].status = 200 /\ pc'[w] = "done"
                 /\ pull'[w] = IdlePull /\ faults' = faults
                 /\ store' = store /\ emitted' = emitted]_vars

\* a poke of state "update" for a stored channel with pending changes,
\* answered 200 with the page token where it was
C17_Witness ==
    /\ pc["w1"] = "done" /\ web["w1"].status = 200
    /\ web["w1"].userAgent = GoogleAgent /\ web["w1"].state = "update"
    /\ pull["w1"] = IdlePull
    /\ \E i \in 1..Len(store) :
          /\ store[i].ChannelID = web["w1"].channelID
          /\ store[i].PageToken < changeLog[store[i].DriveID]

C19_ErrorOnlyForStoredChannel ==
    [][\A w \in WebIDs :
          (pc[w] # "done" /\ pc'[w] = "done" /\ web'[w].status # 404)
              => LET stored == IF pc[w] = "find"
                               THEN \E i \in 1..Len(store) :
                                       store[i].ChannelID = web[w].channelID
                               ELSE pull'[w].found
                     failed == \/ pull'[w].err # ""
                               \/ pc[w] = "emit" /\ faults' # faults
                 IN  web'[w].status =
                        IF web'[w].state = "change" /\ stored /\ failed
                        THEN 500 ELSE 200]_vars

\* C19 (amended): POST / with an accepted User-Agent replies 500 exactly when
\* it is a change poke and ChangesList (the lookup, changes.list or the
\* page-token update) returns an error other than ChannelNotFound, or the
\* emitter returns an error; every other such request is answered 200.
C19_ErrorUnlessChannelNotFound ==
    [][\A w \in WebIDs :
          (pc[w] # "done" /\ pc'[w] = "done" /\ web'[w].status # 404)
              => LET failed == \/ pull'[w].err \notin {"", "ChannelNotFound"}
                               \/ pc[w] = "emit" /\ faults' # faults
                 IN  web'[w].status =
                        IF web'[w].state = "change" /\ failed
                        THEN 500 ELSE 200]_vars

\* a change poke answered 500 because the emitter failed after the page
\* token had been moved
C19_Witness ==
    /\ pc["w1"] = "done" /\ web["w1"].status = 500
    /\ pull["w1"].err = "" /\ pull["w1"].upd = "ok" /\ faults > 0
    /\ \E i \in 1..Len(store) :
          /\ store[i].ChannelID = web["w1"].channelID
          /\ store[i].PageToken = pull["w1"].sent
          /\ <<store[i].DriveID, store[i].PageToken>> \notin emitted

\* C20: when the page-token update of a pull fails because its condition
\* does not hold (the record is there, a concurrent pull has moved it), the
\* change poke is not answered with an error status.
C20_ConditionFailedSwallowed ==
    \A w \in WebIDs :
        (/\ pc[w] = "done" /\ pull[w].err = "ConditionalCheckFailed"
         /\ \E i \in 1..Len(store) : store[i].ChannelID = web[w].channelID)
            => web[w].status = 200

\* C21: POST /sync replies 500 whenever maintenanceChannels fails, the scan
\* of syncChannels fails, or the pull or the emit fails for at least one
\* channel; it replies 200 only when all of them succeeded.
C21_SyncStatusReportsFailure ==
    \A s \in SyncIDs :
        syn[s].status # 0
            => syn[s].status =
                  IF run["m1"].err # "" \/ syn[s].err # "" \/ syn[s].failed
                  THEN 500 ELSE 200

\* C22: on a change poke the changes are put to the event bus before the
\* channel's PageToken is updated in the store: when the update succeeds,
\* every change of the pull has been accepted by the emitter.
C22_EmitBeforeUpdate ==
    [][\A w \in WebIDs :
          (pc[w] = "update" /\ pc'[w] # "update" /\ pull'[w].upd = "ok")
              => \A c \in pull[w].changes :
                    <<pull[w].item.DriveID, c>> \in emitted]_vars

\* C29: in a maintenanceChannels run, a DriveID whose stored channels
\* include one that is not about to expire is not rotated: no channel is
\* created, and none of its channels is stopped or deleted, even when other
\* channels of that DriveID are about to expire.
C29_NoRotationNextToFreshChannel ==
    \A d \in Drives :
        LET old == ChannelsOf(initial, d)
            ids(items) == {items[i].ChannelID : i \in 1..Len(items)}
        IN  (old # <<>> /\ NoRotateExists(old))
                => /\ ChannelsOf(store, d) = old
                   /\ ids(old) \subseteq subs
                   /\ \A x \in TaskIDs : x[3] = d => task[x].created = NoChannel

\* C30: a channel record leaves the store only in the Storage.DeleteChannel
\* step of a DeleteChannel call for that channel, which is reached only
\* once channels.stop answered success or NotFound, so that the
\* subscription is not live; when channels.stop fails with another error
\* the call returns that error and the store is left as it was.
C30_RecordRemovedOnlyAfterStop ==
    [][/\ \A i \in 1..Len(store) :
             (\A j \in 1..Len(store') : store'[j].ChannelID # store[i].ChannelID)
                 => /\ store[i].ChannelID \notin subs
                    /\ \E x \in TaskIDs :
                          /\ task[x].pc = "delete"
                          /\ task[x].todo[1] = store[i]
                          /\ task'[x] # task[x]
       /\ \A x \in TaskIDs :
             (task[x].pc = "stop" /\ task'[x] # task[x] /\ faults' # faults)
                 => /\ task'[x].ret = "Upstream"
                    /\ task'[x].pc # "delete"
                    /\ store' = store
                    /\ subs' = subs]_vars

\* a channels.stop that failed for a channel whose record and subscription
\* are both still there
C30_Witness ==
    \E x \in TaskIDs :
        /\ task[x].ret = "Upstream"
        /\ \E i \in 1..Len(initial) :
              /\ IsAboutToExpired(initial[i], rotateRemaining)
              /\ initial[i].ChannelID \in subs
              /\ \E j \in 1..Len(store) : store[j] = initial[i]

\* C25: the detail-type of a change is determined by its changeType, its
\* removed flag and the trashed flag of its file: "File Removed" for a
\* removed file, "File Move to trash" for a file that is not removed, is
\* present and is trashed, "File Changed" for any other file change,
\* "Shared Drive Removed" for a removed drive, "Drive Status Changed" for
\* any other drive change, "Unexpected Changed" for every other
\* changeType; it is always one of these six values.
C25_DetailTypeTable ==
    conv.done =>
        LET c == conv.change IN
        /\ conv.detailType \in
              {"File Removed", "File Move to trash", "File Changed",
               "Shared Drive Removed", "Drive Status Changed", "Unexpected Changed"}
        /\ c # NoChange =>
              conv.detailType =
                 CASE c.ChangeType = "file" /\ c.Removed -> "File Removed"
                   [] c.ChangeType = "file" /\ ~c.Removed /\ c.File # NoFile
                        /\ c.File.Trashed -> "File Move to trash"
                   [] c.ChangeType = "file" /\ ~c.Removed
                        /\ ~(c.File # NoFile /\ c.File.Trashed) -> "File Changed"
                   [] c.ChangeType = "drive" /\ c.Removed -> "Shared Drive Removed"
                   [] c.ChangeType = "drive" /\ ~c.Removed -> "Drive Status Changed"
                   [] OTHER -> "Unexpected Changed"

\* a trashed file that is not removed has been converted
C25_Witness ==
    /\ conv.done /\ conv.change # NoChange
    /\ conv.change.ChangeType = "file" /\ ~conv.change.Removed
    /\ conv.change.File # NoFile /\ conv.change.File.Trashed
    /\ conv.detailType = "File Move to trash"

\* C26: with withinModifiedTime configured, SendNotification passes to the
\* emitter exactly the changes, in their original order, that carry no
\* file, or carry a file whose modifiedTime does not parse, or satisfy
\* now - modifiedTime <= withinModifiedTime; every change with a parseable
\* modifiedTime older than that is absent.  With withinModifiedTime not
\* configured, all changes are passed.
C26_FilterByModifiedTime ==
    sending.pc = "sent" =>
        LET Kept(c) == \/ c.File = NoFile
                       \/ c.File.ModifiedTime = NoTime
                       \/ now - c.File.ModifiedTime <= sending.within
            Older(c) == /\ c.File # NoFile /\ c.File.ModifiedTime # NoTime
                        /\ now - c.File.ModifiedTime > sending.within
        IN  IF sending.within = NoDuration
            THEN sending.passed = sending.changes
            ELSE /\ sending.passed = SelectSeq(sending.changes, Kept)
                 /\ \A i \in 1..Len(sending.passed) : ~Older(sending.passed[i])

\* a filtered call that kept a change on the limit, dropped an older one
\* and kept a change without a file and one whose time does not parse
C26_Witness ==
    /\ sending.pc = "sent" /\ sending.within # NoDuration
    /\ Len(sending.changes) = 3 /\ Len(sending.passed) = 2
    /\ \E i \in 1..3 : /\ sending.changes[i].File # NoFile
                       /\ sending.changes[i].File.ModifiedTime = now - sending.within - 1
    /\ \E i \in 1..2 : /\ sending.passed[i].File # NoFile
                       /\ sending.passed[i].File.ModifiedTime = now - sending.within
    /\ \E i \in 1..2 : sending.passed[i].File = NoFile
                       \/ sending.passed[i].File.ModifiedTime = NoTime

\* C23: the event-bus emitter, given n changes, submits them in order in
\* ceil(n/10) PutEvents calls of at most 10 entries each; an error of one
\* call or an error code on one entry does not stop the remaining entries
\* and batches from being submitted; it returns an error if and only if at
\* least one call or entry failed, and that error is the last one met.
C23_BatchesOfTen ==
    (notification.kind = "eventbridge" /\ notification.pc = "done") =>
        LET n == Len(notification.details)
            calls == notification.calls
            seen == notification.seen
        IN  /\ Len(calls) = (n + 9) \div 10
            /\ \A k \in 1..Len(calls) :
                  /\ Len(calls[k]) \in 1..10
                  /\ Len(calls[k]) = IF k * 10 <= n THEN 10 ELSE n - (k - 1) * 10
                  /\ \A i \in 1..Len(calls[k]) :
                        calls[k][i].Detail = notification.details[(k - 1) * 10 + i]
            /\ notification.ret # NoErr <=> seen # <<>>
            /\ seen # <<>> => notification.ret = seen[Len(seen)]

\* 21 changes went out in three calls although the first call failed and
\* an entry of the second was refused; the call returned the later error
C23_Witness ==
    /\ notification.kind = "eventbridge" /\ notification.pc = "done"
    /\ Len(notification.details) = 21 /\ Len(notification.calls) = 3
    /\ notification.seen = <<[call |-> 1, entry |-> 0], [call |-> 2, entry |-> 10]>>
    /\ notification.ret = [call |-> 2, entry |-> 10]

\* C24: called with an empty list, neither emitter has a side effect: the
\* event-bus emitter makes no PutEvents call, the file emitter neither
\* opens or creates the event file nor writes to it, and both return no
\* error.
C24_EmptyListNoSideEffect ==
    (notification.pc = "done" /\ notification.details = <<>>)
        => /\ notification.calls = <<>>
           /\ ~notification.opened
           /\ notification.written = <<>>
           /\ notification.ret = NoErr

C28_ExportWhenAsked ==
    (copier.pc = "done" /\ copier.applied # 0 /\ copier.endpoint # "") =>
        LET rule == copier.rules[copier.applied]
            c == copier.detail.Change
            mime == IF c # NoChange /\ c.File # NoFile THEN c.File.MimeType ELSE <<>>
        IN  IF rule.Export # "" \/ HasPrefix(mime, "application/vnd.google-apps.")
            THEN /\ copier.endpoint = "export"
                 /\ copier.format = IF rule.Export = "" THEN "pdf" ELSE rule.Export
            ELSE copier.endpoint = "download"

\* C31: in RotateChannel, a failure to create the new channel makes the
\* rotation fail and leaves the old channel neither stopped nor deleted;
\* a failure to stop or delete the old channel after the new one was
\* created is only logged and does not make the rotation return an error.
C31_OldChannelFailureOnlyLogged ==
    [][\A x \in TaskIDs :
          (x[2] = "rotate" /\ task'[x].pc = "end" /\ task[x].pc # "end")
              => /\ task[x].pc \in {"start", "watch", "save"}
                    => /\ task'[x].err # ""
                       /\ (task[x].todo[1].ChannelID \in subs
                              => task[x].todo[1].ChannelID \in subs')
                       /\ \A i \in 1..Len(store) :
                             store[i] = task[x].todo[1]
                                => \E j \in 1..Len(store') : store'[j] = store[i]
                 /\ (task[x].pc \in {"stop", "delete"} /\ task[x].inRotate)
                    => task'[x].err = ""]_vars

\* C32: RotateChannel asks for a fresh start page token exactly when
\* now - PageTokenFetchedAt >= 90 days; on success the new channel gets the
\* fresh token and PageTokenFetchedAt = now; when the request fails, or
\* fewer than 90 days have passed, the new channel gets the old channel's
\* PageToken and PageTokenFetchedAt, and the rotation goes on.
C32_TokenRefreshedAfterNinetyDays ==
    [][\A x \in TaskIDs :
          (x[2] = "rotate" /\ task'[x] # task[x] /\ task[x].pc \in {"start", "watch"})
              => LET old == task[x].todo[1]
                     new == task'[x].item
                     due == now - old.PageTokenFetchedAt >= 90
                     kept == /\ new.PageToken = old.PageToken
                             /\ new.PageTokenFetchedAt = old.PageTokenFetchedAt
                     fresh == /\ new.PageToken = changeLog[x[3]]
                              /\ new.PageTokenFetchedAt = now
                 IN  /\ task[x].pc = "start"
                        => IF due
                           THEN /\ task'[x].pc = "watch"
                                /\ IF faults' = faults THEN fresh ELSE kept
                           ELSE /\ task'[x].pc \in {"save", "end"}
                                /\ task'[x].pc = "save" => kept
                     /\ (task[x].pc = "watch" /\ task'[x].pc = "save")
                        => /\ new.PageToken = task[x].item.PageToken
                           /\ new.PageTokenFetchedAt = task[x].item.PageTokenFetchedAt
                           /\ new.ChannelID \notin {old.ChannelID, NoChannel}]_vars

\* an old channel whose token was fetched 90 days ago is being replaced by
\* a channel that carries a token fetched now, past the old one
C32_Witness ==
    \E x \in TaskIDs :
        /\ x[2] = "rotate" /\ task[x].pc = "save"
        /\ now - task[x].todo[1].PageTokenFetchedAt >= 90
        /\ task[x].item.PageTokenFetchedAt = now
        /\ task[x].item.PageToken > task[x].todo[1].PageToken

\* C37: maintenanceChannels returns only after every create, rotate and
\* delete task it started has finished, on the success path and on the
\* error path alike; within one POST /sync, syncChannels never runs while a
\* task of that request's maintenanceChannels is still at work.
C37_ReturnsAfterAllTasks ==
    LET Finished(m) == \A x \in TaskIDs : x[1] = m => task[x].pc \in {"none", "end"}
    IN  /\ \A m \in RunIDs : pc[m] = "done" => Finished(m)
        /\ \A s \in SyncIDs : pc[s] # "idle" => Finished("m1")

\* C38: within one maintenanceChannels run each DriveID is handled by at
\* most one task and no channel is the target of two DeleteChannel calls: a
\* DriveID that drives.list does not return and whose channels are all
\* about to expire is deleted only, and is not rotated as well.
C38_OneTaskPerDrive ==
    \A m \in RunIDs :
        /\ \A d \in Drives :
              Cardinality({k \in TaskKinds : task[<<m, k, d>>].pc # "none"}) <= 1
        /\ \A x, y \in TaskIDs :
              (x[1] = m /\ y[1] = m /\ x # y)
                  => \A i \in 1..Len(task[x].todo), j \in 1..Len(task[y].todo) :
                        task[x].todo[i].ChannelID # task[y].todo[j].ChannelID

\* C39: maintenanceChannels starts the creation of a channel for a DriveID
\* only if the store holds no channel for it, also when the read of the
\* channel list fails or is cut short.
C39_CreateOnlyWhenNoChannelStored ==
    [][\A m \in RunIDs, d \in Drives :
          (task[<<m, "create", d>>].pc = "none"
              /\ task'[<<m, "create", d>>].pc # "none")
                 => ChannelsOf(store, d) = <<>>]_vars

\* C40: once a CreateChannel or RotateChannel call has returned, the
\* subscription that its watch call created, if it is live, has a channel
\* record in the store.
C40_NoSubscriptionWithoutRecord ==
    \A x \in TaskIDs :
        (task[x].pc = "end" /\ task[x].created \in subs)
            => \E i \in 1..Len(store) : store[i].ChannelID = task[x].created

\* C35: in both backends a successful UpdatePageToken(ch) sets the stored
\* record's PageToken to ch.PageToken and its UpdatedAt to ch.UpdatedAt,
\* and leaves the other fields of that record, and every other record,
\* unchanged.
C35_UpdateSetsTokenAndUpdatedAt ==
    [][(call' # call /\ call'.op = "UpdatePageToken" /\ call'.err = "") =>
          /\ Len(store') = Len(store)
          /\ \A i \in 1..Len(store) :
                store'[i] =
                   IF i = IndexOf(store, call'.arg.ChannelID)
                   THEN [store[i] EXCEPT !.PageToken = call'.arg.PageToken,
                                         !.UpdatedAt = call'.arg.UpdatedAt]
                   ELSE store[i]]_vars

\* C36: every channel record in the store, after any sequence of
\* createChannel and RotateChannel calls, has Expiration > CreatedAt and
\* PageTokenFetchedAt <= UpdatedAt, whatever expiration the upstream
\* answers the watch call with.
C36_RecordTimesOrdered ==
    \A i \in 1..Len(store) :
        /\ store[i].Expiration > store[i].CreatedAt
        /\ store[i].PageTokenFetchedAt <= store[i].UpdatedAt

\* C33: IsAboutToExpired(ch, remaining) is true exactly when
\* ch.Expiration - now <= remaining: true when the remaining lifetime
\* equals the threshold and when the channel has already expired, false
\* when the remaining lifetime is strictly greater than the threshold.
C33_AboutToExpireAtThreshold ==
    expiry.pc = "done" =>
        LET left == expiry.item.Expiration - now IN
        /\ left = expiry.remaining => expiry.result
        /\ left <= 0 => expiry.result
        /\ left > expiry.remaining => ~expiry.result
        /\ expiry.result <=> left <= expiry.remaining

\* a channel whose remaining lifetime equals a positive threshold was found
\* about to expire
C33_Witness ==
    /\ expiry.pc = "done" /\ expiry.remaining > 0
    /\ expiry.item.Expiration - now = expiry.remaining
    /\ expiry.result

\* C34: for both stores and any number of stored channels, also when the
\* table scan spans several pages, the stream of FindAllChannels delivers
\* every stored channel exactly once across its batches and is then
\* closed: no channel is ever delivered twice, and once the stream is
\* closed every stored channel has been delivered.
C34_EveryChannelExactlyOnce ==
    \A i \in 1..Len(store) :
        LET places == UNION {{<<b, k>> : k \in 1..Len(stream.batches[b])} :
                                b \in 1..Len(stream.batches)}
            n == Cardinality({p \in places :
                    stream.batches[p[1]][p[2]].ChannelID = store[i].ChannelID})
        IN  /\ n <= 1
            /\ stream.pc = "closed" => n = 1

====
